---- MODULE Spec2Model ----
(***************************************************************************)
(* The OIDC login flow of the JWT/OIDC auth backend (path_oidc.go): the    *)
(* expiring cache of OIDC requests, and the handlers auth_url, callback    *)
(* (GET and form_post) and poll that create, read, mutate and delete its   *)
(* entries.  Handlers run on request threads; a handler is modelled as one *)
(* step per access to shared state (the cache, the request object a cache  *)
(* item points to, the role and config storage), so that every             *)
(* interleaving the goroutine-per-request server admits is a behaviour.    *)
(* A call is known by its state parameter; its other fields are drawn at   *)
(* the step whose code reads them with d.Get.  The role storage is read    *)
(* afresh by every lookup, which may find the role deleted.  Time is       *)
(* counted in minutes and advances in ticks.                               *)
(***************************************************************************)
EXTENDS Integers, Sequences, FiniteSets, TLC

(***************************************************************************)
(* Bounds of the model.                                                    *)
(***************************************************************************)
NumThreads == 2      \* request threads that can run handlers concurrently
MaxRequests == 1     \* state IDs a run can generate (auth_url calls that store)
MaxReturned == 2     \* the counters of the history saturate here
TicksPerTimeout == 2 \* clock ticks in one oidcRequestTimeout

(***************************************************************************)
(* Program constants.                                                      *)
(***************************************************************************)
oidcRequestTimeout == 10
oidcRequestCleanupInterval == 1

errLoginFailed == "Vault login failed."
errTokenVerification == "Token verification failed."
errNotOIDCFlow == "OIDC login is not configured for this mount"
noCode == "no_code"
errExpiredState == errLoginFailed \o " Expired or missing OAuth state."

callbackModeClient == "client"
callbackModeDirect == "direct"
responseModeQuery == "query"
responseModeFormPost == "form_post"
OIDCFlow == "oidc"

Threads == 1..NumThreads
StateIDs == 1..MaxRequests
NoState == 0                      \* the empty state parameter: a state ID never issued
StateInputs == StateIDs \cup {NoState}
NoAuth == ""

(***************************************************************************)
(* Redirect URIs.  A URI string is modelled by what url.Parse makes of it: *)
(* whether it parses, its host name, its port and its path segments.  Two  *)
(* URI strings are equal iff their records are.                            *)
(***************************************************************************)
URI(ok, host, port, path) ==
    [wellFormed |-> ok, host |-> host, port |-> port, path |-> path]

EmptyURI == URI(TRUE, "", "", <<>>)
uiCallback == URI(TRUE, "vault.example", "8200", <<"ui", "vault", "auth", "oidc", "oidc", "callback">>)
apiCallback == URI(TRUE, "vault.example", "8200", <<"v1", "auth", "oidc", "oidc", "callback">>)
cliCallback == URI(TRUE, "localhost", "8250", <<"oidc", "callback">>)
cliCallbackOtherPort == URI(TRUE, "localhost", "4321", <<"oidc", "callback">>)
evilCallback == URI(TRUE, "evil.example", "8200", <<"ui", "vault", "auth", "oidc", "oidc", "callback">>)
malformedURI == URI(FALSE, "", "", <<>>)
uiCallbackOtherPort == URI(TRUE, "vault.example", "9200", <<"ui", "vault", "auth", "oidc", "oidc", "callback">>)
cliCallbackNoPort == URI(TRUE, "localhost", "", <<"oidc", "callback">>)
cliCallbackIP == URI(TRUE, "127.0.0.1", "8250", <<"oidc", "callback">>)

RedirectInputs == {EmptyURI, uiCallback, cliCallbackOtherPort}

LoopbackHosts == {"localhost", "127.0.0.1", "::1"}

StrListContains(list, s) == \E i \in 1..Len(list) : list[i] = s

\* a port removal that removes nothing
StripPort_keeping(u) == u

\* inputURI.Host = inputURI.Hostname()
StripPort(u) == [u EXCEPT !.port = ""]

RECURSIVE validRedirectLoop(_, _, _)
validRedirectLoop(inputURI, allowed, i) ==
    IF i > Len(allowed) THEN FALSE
    ELSE IF ~allowed[i].wellFormed THEN FALSE
    ELSE IF inputURI = StripPort(allowed[i]) THEN TRUE
    ELSE validRedirectLoop(inputURI, allowed, i + 1)

validRedirect(uri, allowed) ==
    IF ~uri.wellFormed THEN FALSE
    ELSE IF uri.host \notin LoopbackHosts THEN StrListContains(allowed, uri)
    ELSE validRedirectLoop(StripPort(uri), allowed, 1)

RECURSIVE parseMountFrom(_, _)
parseMountFrom(parts, i) ==
    IF i + 2 > Len(parts) THEN ""
    ELSE IF parts[i] = "v1" /\ parts[i + 1] = "auth" THEN parts[i + 2]
    ELSE parseMountFrom(parts, i + 1)

parseMount(redirectURI) == parseMountFrom(redirectURI.path, 1)

\* strings.Replace(redirectURI, "ui/vault", "v1", 1) on the path segments
RECURSIVE ReplaceUIVault(_)
ReplaceUIVault(path) ==
    IF Len(path) < 2 THEN path
    ELSE IF path[1] = "ui" /\ path[2] = "vault" THEN <<"v1">> \o SubSeq(path, 3, Len(path))
    ELSE <<path[1]>> \o ReplaceUIVault(Tail(path))

(***************************************************************************)
(* Inputs of the handlers.                                                 *)
(***************************************************************************)
RoleNames == {"dev", "ops"}

\* role.CallbackMode: dev logs in from the CLI, ops through a device that polls
CallbackMode(roleName) ==
    IF roleName = "dev" THEN callbackModeClient ELSE callbackModeDirect

\* role.AllowedRedirectURIs: dev is a CLI role with a loopback listener, ops
\* is a role of the web UI
AllowedRedirectURIs(roleName) ==
    IF roleName = "dev" THEN <<cliCallback>> ELSE <<uiCallback>>
RoleInputs == RoleNames \cup {"", "ghost"}
NonceInputs == {"", "n1", "n2"}
StartNonceInputs == {"", "n1"}
CodeInputs == {"", noCode, "c1"}

\* what a provider posts to the form_post callback: a code or an ID token
PostInputs == {[code |-> "c1", id_token |-> ""], [code |-> "", id_token |-> "t1"]}
ErrorDescriptionInputs == {"", "access_denied"}

\* What the provider, the token, the identity translation and the role's
\* bindings make of a callback: all outside this file.
ExternalOutcomes ==
    {"ok", "cidr_denied", "provider_error", "token_invalid", "claims_error",
     "subject_mismatch", "bound_claims_error"}

\* What auth_url's collaborators can do: the provider lookup, the generation of
\* the request (state, nonce, PKCE verifier) and the provider's URL construction.
AuthURLOutcomes == {"ok", "provider_error", "request_error", "auth_url_error"}

\* A read of the config storage succeeds or returns an error.
StorageOutcomes == {"ok", "storage_error"}

\* A read of the role storage finds the role, fails, or finds that an
\* operator has deleted the role.
RoleOutcomes == {"ok", "storage_error", "deleted"}

VARIABLES
    config,         \* the mount's configuration (b.config)
    oidcRequests,   \* b.oidcRequests: state ID -> cache item
    requests,       \* the oidcRequest objects the cache items point to
    op,             \* per thread: the handler it runs, "idle" when none
    pc,             \* per thread: its position in the handler
    args,           \* per thread: the call's state and the fields it has read
    mode,           \* per thread: role.CallbackMode as the handler read it
    returned,       \* the call that returned in the last step, with its response
    authReturned,   \* per state ID: credentials handed out by pathPoll so far
    removedBy,      \* per state ID: who deleted its item last, "" when nobody has
    checkedURI,     \* validRedirect's uri of the call under test
    checkedAllowed, \* validRedirect's allowed of the call under test
    checkedValid    \* what that call returned, "" before it has

vars == <<config, oidcRequests, requests,
          op, pc, args, mode, returned, authReturned, removedBy,
          checkedURI, checkedAllowed, checkedValid>>

history == <<authReturned, removedBy>>

checked == <<checkedURI, checkedAllowed, checkedValid>>


(***************************************************************************)
(* Configuration and roles.                                                *)
(***************************************************************************)
Config(present, flow, respMode, defaultRole) ==
    [present |-> present, authType |-> flow, OIDCResponseMode |-> respMode,
     DefaultRole |-> defaultRole]

NoConfig == Config(FALSE, "", "", "")

ConfigInputs ==
    {Config(TRUE, OIDCFlow, responseModeQuery, ""),
     Config(TRUE, OIDCFlow, responseModeFormPost, "dev"),
     Config(TRUE, "jwt", responseModeQuery, "")}

\* b.role(ctx, s, name): the callback mode of the role read, "" when there
\* is no such role
role(name, found) ==
    IF name \in RoleNames /\ found = "ok" THEN CallbackMode(name) ELSE ""

(***************************************************************************)
(* The request cache: go-cache with a default expiration, holding pointers *)
(* to oidcRequest objects.  A state ID names one object for its whole      *)
(* life, so the object of state ID s is requests[s].  An item records its  *)
(* expiration relative to the clock: ttl = Expiration - now, which a Set   *)
(* makes oidcRequestTimeout and every tick lowers by TickMinutes.          *)
(***************************************************************************)
NoItem == [present |-> FALSE, ttl |-> 0]
Item(ttl) == [present |-> TRUE, ttl |-> ttl]

NoRequest ==
    [allocated |-> FALSE, rolename |-> "", redirectURI |-> EmptyURI,
     clientNonce |-> "", code |-> "", idToken |-> "", auth |-> NoAuth]

\* now > item.Expiration
Expired(item) == item.ttl < 0

\* a Get that forgets the expiration and returns what the janitor has left
getOIDCRequest_unexpiring(stateID) ==
    stateID \in StateIDs /\ oidcRequests[stateID].present

\* b.oidcRequests.Get: found iff present and not past its expiration
getOIDCRequest(stateID) ==
    /\ stateID \in StateIDs
    /\ oidcRequests[stateID].present
    /\ ~Expired(oidcRequests[stateID])

\* a Set that gives the item more than the timeout
setOIDCRequest_extending(cache, stateID) ==
    [cache EXCEPT ![stateID] = Item(2 * oidcRequestTimeout)]

\* a Set that leaves the expiration of an item already in the cache
setOIDCRequest_keeping(cache, stateID) ==
    IF cache[stateID].present THEN cache
    ELSE [cache EXCEPT ![stateID] = Item(oidcRequestTimeout)]

\* b.oidcRequests.SetDefault(stateID, oidcReq)
setOIDCRequest(cache, stateID) ==
    [cache EXCEPT ![stateID] = Item(oidcRequestTimeout)]

\* a Delete that leaves the item in the cache
deleteOIDCRequest_forgotten(cache, stateID) == cache

\* b.oidcRequests.Delete(stateID)
deleteOIDCRequest(cache, stateID) ==
    IF stateID \in StateIDs THEN [cache EXCEPT ![stateID] = NoItem] ELSE cache

\* a janitor that deletes nothing
DeleteExpired_idle(cache) == cache

\* the janitor's DeleteExpired
DeleteExpired(cache) ==
    [s \in StateIDs |-> IF cache[s].present /\ Expired(cache[s]) THEN NoItem ELSE cache[s]]

TickMinutes == oidcRequestTimeout \div TicksPerTimeout

\* TickMinutes pass.  An expired item stays expired: its ttl is kept at -1.
Age(cache) ==
    [s \in StateIDs |->
        IF ~cache[s].present \/ Expired(cache[s]) THEN cache[s]
        ELSE IF cache[s].ttl < TickMinutes THEN Item(0 - 1)
        ELSE Item(cache[s].ttl - TickMinutes)]

(***************************************************************************)
(* Responses.                                                              *)
(***************************************************************************)
Response(class, msg) ==
    [class |-> class, msg |-> msg, auth |-> NoAuth, auth_url |-> "", state |-> NoState,
     poll_interval |-> ""]

NoResponse == Response("", "")
ErrorResponse(msg) == Response("error", msg)
GoError(msg) == Response("go_error", msg)
HTTPResponse(status, body) == Response(status, body)
AuthResponse(auth) == [Response("auth", "") EXCEPT !.auth = auth]

loginFailedResponse(http, msg) ==
    IF ~http THEN ErrorResponse(errLoginFailed \o " " \o msg)
    ELSE HTTPResponse("http400", msg)

NoArgs ==
    [state |-> NoState, client_nonce |-> "", code |-> "", id_token |-> "",
     error_description |-> "", role |-> "", redirect_uri |-> EmptyURI]

NoCall == [handler |-> "", args |-> NoArgs, mode |-> "", resp |-> NoResponse]

Min(a, b) == IF a < b THEN a ELSE b

\* lines 250 and 417: a nonce was given at auth_url and this one is not it
nonceMismatch(oidcReq, clientNonce) ==
    oidcReq.clientNonce # "" /\ clientNonce # oidcReq.clientNonce

\* the inputs validRedirect is put to the test on
MaxAllowed == 2
CheckedURIs == {uiCallback, uiCallbackOtherPort, evilCallback,
                cliCallback, cliCallbackOtherPort, cliCallbackNoPort, cliCallbackIP,
                malformedURI}
CheckedAllowLists == UNION {[1..n -> CheckedURIs] : n \in 0..MaxAllowed}

(***************************************************************************)
(* Initial state: a fresh mount, no configuration yet.                     *)
(***************************************************************************)
InitBackend ==
    /\ config = NoConfig
    /\ oidcRequests = [s \in StateIDs |-> NoItem]
    /\ requests = [s \in StateIDs |-> NoRequest]
    /\ op = [p \in Threads |-> "idle"]
    /\ pc = [p \in Threads |-> "done"]
    /\ args = [p \in Threads |-> NoArgs]
    /\ mode = [p \in Threads |-> ""]
    /\ returned = NoCall
    /\ authReturned = [s \in StateIDs |-> 0]
    /\ removedBy = [s \in StateIDs |-> ""]

Init ==
    /\ InitBackend
    /\ checkedURI = EmptyURI
    /\ checkedAllowed = <<>>
    /\ checkedValid = ""


(***************************************************************************)
(* The environment: time, the janitor, the operator's write.  A step is    *)
(* taken once the response of the call that returned last has gone out.    *)
(***************************************************************************)
Quiet == returned = NoCall

\* an item past its expiration that the janitor has not deleted yet
Stale(cache) == \E s \in StateIDs : cache[s].present /\ Expired(cache[s])

\* TickMinutes pass.  The janitor runs every oidcRequestCleanupInterval,
\* which is less than a tick: it has deleted what was expired before the
\* next tick.
Tick ==
    /\ Quiet
    /\ oidcRequestCleanupInterval < TickMinutes
    /\ ~Stale(oidcRequests)
    /\ oidcRequests' = Age(oidcRequests)
    /\ UNCHANGED <<config, requests, op, pc, args, mode, returned, history, checked>>

\* the janitor's run
Sweep ==
    /\ Quiet
    /\ Stale(oidcRequests)
    /\ oidcRequests' = DeleteExpired(oidcRequests)
    /\ removedBy' = [s \in StateIDs |->
                        IF oidcRequests[s].present /\ Expired(oidcRequests[s])
                        THEN "janitor" ELSE removedBy[s]]
    /\ UNCHANGED <<config, requests, op, pc, args, mode, returned, authReturned, checked>>

\* the operator configures the mount
WriteConfig ==
    /\ Quiet
    /\ ~config.present
    /\ \E c \in ConfigInputs : config' = c
    /\ UNCHANGED <<oidcRequests, requests, op, pc, args, mode, returned, history, checked>>

\* the response of the call that returned goes out to its caller
Respond ==
    /\ ~Quiet
    /\ returned' = NoCall
    /\ UNCHANGED <<config, oidcRequests, requests, op, pc, args, mode, history, checked>>

(***************************************************************************)
(* The steps of a handler on a request thread.                             *)
(***************************************************************************)
Idle(p) == op[p] = "idle"
At(p, handler, label) == Quiet /\ op[p] = handler /\ pc[p] = label

\* a new call goes to the first free thread
Free(p) == Quiet /\ Idle(p) /\ \A q \in Threads : q < p => ~Idle(q)

\* the handler's Delete of the item of stateID, seen from outside
Removes(stateID, who) ==
    /\ oidcRequests' = deleteOIDCRequest(oidcRequests, stateID)
    /\ removedBy' = [removedBy EXCEPT ![stateID] = who]

\* the handler returns r, having read the fields a and the role's mode m
Return(p, handler, a, m, r) ==
    /\ op' = [op EXCEPT ![p] = "idle"]
    /\ pc' = [pc EXCEPT ![p] = "done"]
    /\ args' = [args EXCEPT ![p] = NoArgs]
    /\ mode' = [mode EXCEPT ![p] = ""]
    /\ returned' = [handler |-> handler, args |-> a, mode |-> m, resp |-> r]
    /\ UNCHANGED checked

\* the handler goes on to label
Goto(p, handler, label, a, m) ==
    /\ op' = [op EXCEPT ![p] = handler]
    /\ pc' = [pc EXCEPT ![p] = label]
    /\ args' = [args EXCEPT ![p] = a]
    /\ mode' = [mode EXCEPT ![p] = m]
    /\ UNCHANGED <<returned, checked>>

(***************************************************************************)
(* pathPoll                                                                *)
(***************************************************************************)
\* lines 408-420: the lookup and the comparison of the nonce
pathPoll_get(p) ==
    /\ Free(p)
    /\ \E stateID \in StateInputs :
         LET a == [NoArgs EXCEPT !.state = stateID]
         IN IF ~getOIDCRequest(stateID)
            THEN Return(p, "pathPoll", a, "", ErrorResponse(errExpiredState))
            ELSE \E clientNonce \in NonceInputs :
                   LET b == [a EXCEPT !.client_nonce = clientNonce]
                   IN IF nonceMismatch(requests[stateID], clientNonce)
                      THEN Goto(p, "pathPoll", "poll_nonce_delete", b, "")
                      ELSE Goto(p, "pathPoll", "poll_auth", b, "")
    /\ UNCHANGED <<config, oidcRequests, requests, history>>

\* lines 418-419
pathPoll_nonceDelete(p) ==
    /\ At(p, "pathPoll", "poll_nonce_delete")
    /\ Removes(args[p].state, "pathPoll_nonce")
    /\ Return(p, "pathPoll", args[p], "", ErrorResponse("invalid client_nonce"))
    /\ UNCHANGED <<config, requests, authReturned>>

\* a poll that stores the request again while it is pending
pathPoll_auth_touching(p) ==
    /\ At(p, "pathPoll", "poll_auth")
    /\ IF requests[args[p].state].auth = NoAuth
       THEN /\ oidcRequests' = setOIDCRequest(oidcRequests, args[p].state)
            /\ Return(p, "pathPoll", args[p], "", ErrorResponse("authorization_pending"))
       ELSE /\ UNCHANGED oidcRequests
            /\ Goto(p, "pathPoll", "poll_delete", args[p], "")
    /\ UNCHANGED <<config, requests, history>>

\* lines 422-425: the read of oidcReq.auth
pathPoll_auth(p) ==
    /\ At(p, "pathPoll", "poll_auth")
    /\ IF requests[args[p].state].auth = NoAuth
       THEN Return(p, "pathPoll", args[p], "", ErrorResponse("authorization_pending"))
       ELSE Goto(p, "pathPoll", "poll_delete", args[p], "")
    /\ UNCHANGED <<config, oidcRequests, requests, history>>

\* lines 427-431
pathPoll_delete(p) ==
    /\ At(p, "pathPoll", "poll_delete")
    /\ Removes(args[p].state, "pathPoll")
    /\ Return(p, "pathPoll", args[p], "", AuthResponse(requests[args[p].state].auth))
    /\ authReturned' = [authReturned EXCEPT ![args[p].state] = Min(@ + 1, MaxReturned)]
    /\ UNCHANGED <<config, requests>>

pathPoll(p) ==
    \/ pathPoll_get(p)
    \/ pathPoll_nonceDelete(p)
    \/ pathPoll_auth(p)
    \/ pathPoll_delete(p)

(***************************************************************************)
(* pathCallback                                                            *)
(***************************************************************************)
\* lines 205-218: the configuration, then the lookup of the request
pathCallback_get(p) ==
    /\ Free(p)
    /\ \E stateID \in StateInputs, storage \in StorageOutcomes :
         LET a == [NoArgs EXCEPT !.state = stateID]
         IN IF storage # "ok"
            THEN Return(p, "pathCallback", a, "", GoError("storage error"))
            ELSE IF ~config.present
            THEN Return(p, "pathCallback", a, "",
                        ErrorResponse(errLoginFailed \o " Could not load configuration"))
            ELSE IF ~getOIDCRequest(stateID) \/ requests[stateID].auth # NoAuth
            THEN Return(p, "pathCallback", a, "", ErrorResponse(errExpiredState))
            ELSE Goto(p, "pathCallback", "cb_role", a, "")
    /\ UNCHANGED <<config, oidcRequests, requests, history>>

\* a read of the role that deletes the request whatever the callback mode
pathCallback_role_deleting(p) ==
    /\ At(p, "pathCallback", "cb_role")
    /\ \E found \in RoleOutcomes :
         LET m == role(requests[args[p].state].rolename, found)
         IN /\ Removes(args[p].state, IF m = "" THEN "pathCallback_role" ELSE "pathCallback")
            /\ IF found = "storage_error"
               THEN Return(p, "pathCallback", args[p], "", GoError("storage error"))
               ELSE IF m = ""
               THEN Return(p, "pathCallback", args[p], "",
                           ErrorResponse(errLoginFailed \o " Role could not be found"))
               ELSE Goto(p, "pathCallback", "cb_process", args[p], m)
    /\ UNCHANGED <<config, requests, authReturned>>

\* lines 220-238: the read of the role and, when the role is missing or not
\* in direct mode, the deletion of the request
pathCallback_role(p) ==
    /\ At(p, "pathCallback", "cb_role")
    /\ \E found \in RoleOutcomes :
         LET m == role(requests[args[p].state].rolename, found)
         IN IF found = "storage_error"
            THEN /\ Removes(args[p].state, "pathCallback_role")
                 /\ Return(p, "pathCallback", args[p], "", GoError("storage error"))
            ELSE IF m = ""
            THEN /\ Removes(args[p].state, "pathCallback_role")
                 /\ Return(p, "pathCallback", args[p], "",
                           ErrorResponse(errLoginFailed \o " Role could not be found"))
            ELSE IF m # callbackModeDirect
            THEN /\ Removes(args[p].state, "pathCallback")
                 /\ Goto(p, "pathCallback", "cb_process", args[p], m)
            ELSE /\ UNCHANGED <<oidcRequests, removedBy>>
                 /\ Goto(p, "pathCallback", "cb_process", args[p], m)
    /\ UNCHANGED <<config, requests, authReturned>>

\* a callback that does not compare the client nonce
callbackFailure_nonceUnchecked(useHttp, a, oidcReq, ext) ==
    IF a.error_description # ""
    THEN loginFailedResponse(useHttp, a.error_description)
    ELSE IF ext = "ok" THEN NoResponse
    ELSE loginFailedResponse(useHttp, ext)

\* lines 240-363: what the callback returns when it does not reach the
\* credential, NoResponse when it does.  ext is what the collaborators answer.
callbackFailure(useHttp, a, oidcReq, ext) ==
    LET code == IF a.code = noCode THEN oidcReq.code ELSE a.code
    IN IF a.error_description # ""
       THEN loginFailedResponse(useHttp, a.error_description)
       ELSE IF nonceMismatch(oidcReq, a.client_nonce) /\ ~useHttp
       THEN ErrorResponse("invalid client_nonce")
       ELSE IF ext = "cidr_denied"
       THEN GoError("permission denied")
       ELSE IF ext = "provider_error"
       THEN GoError("error getting provider for login operation")
       ELSE IF code = "" /\ oidcReq.idToken = ""
       THEN loginFailedResponse(useHttp, "No code or id_token received.")
       ELSE IF code = "" /\ ext = "token_invalid"
       THEN ErrorResponse(errTokenVerification \o " invalid token")
       ELSE IF code # "" /\ ext = "token_invalid"
       THEN loginFailedResponse(useHttp, "Error exchanging oidc code.")
       ELSE IF ext = "claims_error"
       THEN GoError("claims error")
       ELSE IF ext = "subject_mismatch"
       THEN loginFailedResponse(useHttp, "sub claim does not match bound subject")
       ELSE IF ext = "bound_claims_error"
       THEN loginFailedResponse(useHttp, "error validating claims")
       ELSE NoResponse

\* the collaborators consulted before the code is read (lines 254-267), and after
EarlyOutcomes == {"cidr_denied", "provider_error"}
LateOutcomes == ExternalOutcomes \ EarlyOutcomes

\* lines 240-390 and, in client mode, 400-404.  The step draws the fields
\* that the d.Get calls of lines 240, 245 and 272 read; the code is left
\* unread by a return that comes before line 272.
pathCallback_process(p) ==
    /\ At(p, "pathCallback", "cb_process")
    /\ LET useHttp == mode[p] = callbackModeDirect
           oidcReq == requests[args[p].state]
           Finish(a, ext) ==
               LET failure == callbackFailure(useHttp, a, oidcReq, ext)
               IN IF failure # NoResponse
                  THEN Return(p, "pathCallback", a, mode[p], failure)
                  ELSE IF useHttp
                  THEN Goto(p, "pathCallback", "cb_attach", a, mode[p])
                  ELSE Return(p, "pathCallback", a, mode[p], AuthResponse(oidcReq.rolename))
       IN \E errorDescription \in ErrorDescriptionInputs, clientNonce \in NonceInputs :
            LET a == [args[p] EXCEPT !.error_description = errorDescription,
                                     !.client_nonce = clientNonce]
            IN IF errorDescription # "" \/ (nonceMismatch(oidcReq, clientNonce) /\ ~useHttp)
               THEN Finish(a, "ok")
               ELSE \/ \E ext \in EarlyOutcomes : Finish(a, ext)
                    \/ \E code \in CodeInputs, ext \in LateOutcomes :
                          Finish([a EXCEPT !.code = code], ext)
    /\ UNCHANGED <<config, oidcRequests, requests, history>>

\* line 393: oidcReq.auth = auth, a write to the shared request object
pathCallback_attach(p) ==
    /\ At(p, "pathCallback", "cb_attach")
    /\ requests' = [requests EXCEPT ![args[p].state].auth = requests[args[p].state].rolename]
    /\ Goto(p, "pathCallback", "cb_set", args[p], mode[p])
    /\ UNCHANGED <<config, oidcRequests, history>>

\* a direct-mode callback that also answers with the credential
pathCallback_set_leaking(p) ==
    /\ At(p, "pathCallback", "cb_set")
    /\ oidcRequests' = setOIDCRequest(oidcRequests, args[p].state)
    /\ Return(p, "pathCallback", args[p], mode[p], AuthResponse(requests[args[p].state].auth))
    /\ UNCHANGED <<config, requests, history>>

\* lines 394-404
pathCallback_set(p) ==
    /\ At(p, "pathCallback", "cb_set")
    /\ oidcRequests' = setOIDCRequest(oidcRequests, args[p].state)
    /\ Return(p, "pathCallback", args[p], mode[p], HTTPResponse("http200", "success"))
    /\ UNCHANGED <<config, requests, history>>

pathCallback(p) ==
    \/ pathCallback_get(p)
    \/ pathCallback_role(p)
    \/ pathCallback_process(p)
    \/ pathCallback_attach(p)
    \/ pathCallback_set(p)

(***************************************************************************)
(* pathCallbackPost                                                        *)
(***************************************************************************)
\* lines 147-174
pathCallbackPost_get(p) ==
    /\ Free(p)
    /\ \E stateID \in StateInputs, storage \in StorageOutcomes :
         LET a0 == [NoArgs EXCEPT !.state = stateID]
         IN IF storage # "ok"
            THEN Return(p, "pathCallbackPost", a0, "", GoError("storage error"))
            ELSE IF ~config.present
            THEN Return(p, "pathCallbackPost", a0, "",
                        ErrorResponse(errLoginFailed \o " Could not load configuration."))
            ELSE IF config.OIDCResponseMode # responseModeFormPost
            THEN Return(p, "pathCallbackPost", a0, "", HTTPResponse("http405", ""))
            ELSE \E post \in PostInputs :
                   LET a == [a0 EXCEPT !.code = post.code, !.id_token = post.id_token]
                   IN IF ~getOIDCRequest(stateID)
                      THEN Return(p, "pathCallbackPost", a, "",
                                  HTTPResponse("http400", "Expired or missing OAuth state."))
                      ELSE Goto(p, "pathCallbackPost", "post_write", a, "")
    /\ UNCHANGED <<config, oidcRequests, requests, history>>

\* lines 176-177: writes to the shared request object
pathCallbackPost_write(p) ==
    /\ At(p, "pathCallbackPost", "post_write")
    /\ requests' = [requests EXCEPT ![args[p].state].code = args[p].code,
                                    ![args[p].state].idToken = args[p].id_token]
    /\ Goto(p, "pathCallbackPost", "post_set", args[p], "")
    /\ UNCHANGED <<config, oidcRequests, history>>

\* lines 178-188
pathCallbackPost_set(p) ==
    /\ At(p, "pathCallbackPost", "post_set")
    /\ oidcRequests' = setOIDCRequest(oidcRequests, args[p].state)
    /\ IF parseMount(requests[args[p].state].redirectURI) = ""
       THEN Return(p, "pathCallbackPost", args[p], "",
                   HTTPResponse("http400", "Invalid redirect path."))
       ELSE Return(p, "pathCallbackPost", args[p], "", HTTPResponse("http200", "formpost"))
    /\ UNCHANGED <<config, requests, history>>

pathCallbackPost(p) ==
    \/ pathCallbackPost_get(p)
    \/ pathCallbackPost_write(p)
    \/ pathCallbackPost_set(p)

(***************************************************************************)
(* authURL.  The handler reads the configuration and the role and makes    *)
(* one access to the cache (the SetDefault in createOIDCRequest); it is    *)
(* one step, taken at that access.  The namespace that NamespaceInState    *)
(* moves from the redirect URI into the returned URL is left out.          *)
(***************************************************************************)
EmptyAuthURL == Response("data", "")

\* oidc.NewRequest draws a fresh random state ID
Unissued == {s \in StateIDs : ~requests[s].allocated}
NewState == CHOOSE s \in Unissued : \A o \in Unissued : s <= o

\* lines 553-587, the object that createOIDCRequest makes
createOIDCRequest(reqs, stateID, rolename, redirectURI, clientNonce) ==
    [reqs EXCEPT ![stateID] =
        [allocated |-> TRUE, rolename |-> rolename, redirectURI |-> redirectURI,
         clientNonce |-> clientNonce, code |-> "", idToken |-> "", auth |-> NoAuth]]

\* the rule turned round: a nonce asked for unless the role is in direct mode
nonceRequired_unlessDirect(m) == m # callbackModeDirect

\* line 482: the role's callback modes that make auth_url ask for a client nonce
nonceRequired(m) == m # callbackModeClient

\* lines 448-458
authURL_config(p) ==
    /\ Free(p)
    /\ \E storage \in StorageOutcomes :
         /\ storage # "ok" \/ ~config.present \/ config.authType # OIDCFlow
         /\ Return(p, "authURL", NoArgs, "",
                   IF storage # "ok" THEN GoError("storage error")
                   ELSE IF ~config.present THEN ErrorResponse("could not load configuration")
                   ELSE ErrorResponse(errNotOIDCFlow))
    /\ UNCHANGED <<config, oidcRequests, requests, history>>

\* lines 460-479
authURL_role(p) ==
    /\ Free(p)
    /\ config.present /\ config.authType = OIDCFlow
    /\ \E roleIn \in RoleInputs :
         LET roleName == IF roleIn = "" THEN config.DefaultRole ELSE roleIn
             a1 == [NoArgs EXCEPT !.role = roleIn]
         IN IF roleName = ""
            THEN Return(p, "authURL", a1, "", ErrorResponse("missing role"))
            ELSE \E redirectIn \in RedirectInputs :
                   LET a2 == [a1 EXCEPT !.redirect_uri = redirectIn]
                   IN IF redirectIn = EmptyURI
                      THEN Return(p, "authURL", a2, "", ErrorResponse("missing redirect_uri"))
                      ELSE \E found \in RoleOutcomes :
                             /\ role(roleName, found) = ""
                             /\ Return(p, "authURL", a2, "",
                                       IF found = "storage_error" THEN GoError("storage error")
                                       ELSE ErrorResponse("role could not be found"))
    /\ UNCHANGED <<config, oidcRequests, requests, history>>

\* lines 481-549
authURL_request(p) ==
    /\ Free(p)
    /\ config.present /\ config.authType = OIDCFlow
    /\ \E roleIn \in RoleInputs, redirectIn \in RedirectInputs \ {EmptyURI},
          clientNonce \in StartNonceInputs :
         LET roleName == IF roleIn = "" THEN config.DefaultRole ELSE roleIn
             m == role(roleName, "ok")
             a == [NoArgs EXCEPT !.role = roleIn, !.redirect_uri = redirectIn,
                                 !.client_nonce = clientNonce]
             \* lines 514-516
             redirectURI == IF config.OIDCResponseMode = responseModeFormPost
                            THEN [redirectIn EXCEPT !.path = ReplaceUIVault(redirectIn.path)]
                            ELSE redirectIn
         IN /\ m # ""
            /\ IF clientNonce = "" /\ nonceRequired(m)
               THEN /\ Return(p, "authURL", a, m, ErrorResponse("missing client_nonce"))
                    /\ UNCHANGED <<oidcRequests, requests>>
               ELSE IF ~validRedirect(redirectIn, AllowedRedirectURIs(roleName))
               THEN /\ Return(p, "authURL", a, m, EmptyAuthURL)
                    /\ UNCHANGED <<oidcRequests, requests>>
               ELSE \E ext \in AuthURLOutcomes :
                      IF ext \in {"provider_error", "request_error"}
                      THEN /\ Return(p, "authURL", a, m, EmptyAuthURL)
                           /\ UNCHANGED <<oidcRequests, requests>>
                      ELSE /\ Unissued # {}
                           /\ requests' = createOIDCRequest(requests, NewState, roleName,
                                                            redirectURI, clientNonce)
                           /\ oidcRequests' = setOIDCRequest(oidcRequests, NewState)
                           /\ IF ext = "auth_url_error"
                              THEN Return(p, "authURL", a, m, EmptyAuthURL)
                              ELSE Return(p, "authURL", a, m, [EmptyAuthURL EXCEPT
                                     !.auth_url = "authorize?state",
                                     !.state = IF m = callbackModeDirect THEN NewState ELSE NoState,
                                     !.poll_interval = IF m = callbackModeDirect THEN "5" ELSE ""])
    /\ UNCHANGED <<config, history>>

authURL(p) ==
    \/ authURL_config(p)
    \/ authURL_role(p)
    \/ authURL_request(p)

(***************************************************************************)
(* The backend: request threads running handlers, the clock, the janitor   *)
(* and the operator.                                                       *)
(***************************************************************************)
Next ==
    \/ Tick
    \/ Sweep
    \/ WriteConfig
    \/ Respond
    \/ \E p \in Threads : authURL(p)
    \/ \E p \in Threads : pathCallback(p)
    \/ \E p \in Threads : pathCallbackPost(p)
    \/ \E p \in Threads : pathPoll(p)

Spec == Init /\ [][Next]_vars

(***************************************************************************)
(* The same backend with its calls run one after the other: a thread      *)
(* steps only while no other thread is in a handler.                       *)
(***************************************************************************)
Alone(p) == \A q \in Threads : q # p => Idle(q)

SeqNext ==
    \/ Tick
    \/ Sweep
    \/ WriteConfig
    \/ Respond
    \/ \E p \in Threads : Alone(p) /\ authURL(p)
    \/ \E p \in Threads : Alone(p) /\ pathCallback(p)
    \/ \E p \in Threads : Alone(p) /\ pathCallbackPost(p)
    \/ \E p \in Threads : Alone(p) /\ pathPoll(p)

SeqSpec == Init /\ [][SeqNext]_vars

(***************************************************************************)
(* The backend with its scheduling: a handler that has returned gets its   *)
(* response out, and the janitor, a goroutine of its own on a ticker,      *)
(* runs again and again whatever the handlers do.                          *)
(***************************************************************************)
(***************************************************************************)
(* validRedirect on its own: one call on each candidate and allow-list.    *)
(***************************************************************************)
InitValidRedirect ==
    /\ InitBackend
    /\ checkedURI \in CheckedURIs
    /\ checkedAllowed \in CheckedAllowLists
    /\ checkedValid = ""

CallValidRedirect ==
    /\ checkedValid = ""
    /\ checkedValid' = IF validRedirect(checkedURI, checkedAllowed) THEN "valid" ELSE "invalid"
    /\ UNCHANGED <<config, oidcRequests, requests, op, pc, args, mode, returned,
                   history, checkedURI, checkedAllowed>>

NextValidRedirect == CallValidRedirect

ValidRedirectSpec == InitValidRedirect /\ [][NextValidRedirect]_vars

LiveSpec == Spec /\ WF_vars(Respond) /\ SF_vars(Sweep)

(***************************************************************************)
(* What the properties below speak of.                                     *)
(***************************************************************************)
\* the item of state ID s is in the store: there, and not past its expiration
InStore(s) ==
    s \in StateIDs /\ oidcRequests[s].present /\ oidcRequests[s].ttl >= 0

\* the call that returned in the last step ran handler for the state ID s
Returned(handler, s) == returned.handler = handler /\ returned.args.state = s

\* the calls of handler for the state ID s that are past their lookup
InFlight(handler, s) == {p \in Threads : op[p] = handler /\ args[p].state = s}

\* the request of state ID s was made for a role in the callback mode m
RequestMode(s, m) == requests[s].allocated /\ CallbackMode(requests[s].rolename) = m

\* this step starts a call of handler for the state ID s: a thread takes it
\* past its lookup, or it returns at once
StartsCall(handler, s) ==
    /\ Quiet
    /\ \/ \E p \in Threads : Idle(p) /\ op'[p] = handler /\ args'[p].state = s
       \/ op' = op /\ returned'.handler = handler /\ returned'.args.state = s

ExpiredState == ErrorResponse(errExpiredState)
InvalidNonce == ErrorResponse("invalid client_nonce")
Pending == ErrorResponse("authorization_pending")
MissingNonce == ErrorResponse("missing client_nonce")

(***************************************************************************)
(* The properties.                                                         *)
(***************************************************************************)

\* C1: for a client-mode role, of the pathCallback calls that run
\* concurrently with one state ID at most one finds the request and goes
\* past its lookup; never are two of them past it.
C1_OneCallbackProceeds ==
    \A s \in StateIDs :
        RequestMode(s, callbackModeClient) => Cardinality(InFlight("pathCallback", s)) <= 1

\* C2: whatever the interleaving of the pathPoll calls, at most one of them
\* ever returns the credential attached to a state ID.
C2_AtMostOnceDelivery == \A s \in StateIDs : authReturned[s] <= 1

\* C3: with the calls run one after the other, a poll answers with the
\* credential only when one is attached, then for the first time and with
\* the item deleted; it answers "authorization_pending" only while none is
\* attached, "invalid client_nonce" only for a nonce that differs, and
\* "Expired or missing OAuth state" only when the item is not in the store;
\* every poll after the delivery answers "Expired or missing OAuth state".
C3_DirectRoundTrip ==
    \A s \in StateIDs :
        Returned("pathPoll", s) =>
            LET r == returned.resp
            IN /\ r.class = "auth" \/ r \in {ExpiredState, InvalidNonce, Pending}
               /\ r.class = "auth" =>
                      /\ r.auth # NoAuth /\ r.auth = requests[s].auth
                      /\ RequestMode(s, callbackModeDirect)
                      /\ ~oidcRequests[s].present
                      /\ authReturned[s] = 1
               /\ r = Pending => requests[s].auth = NoAuth
               /\ r = InvalidNonce => nonceMismatch(requests[s], returned.args.client_nonce)
               /\ r = ExpiredState => ~InStore(s)
               /\ (authReturned[s] >= 1 /\ r.class # "auth") => r = ExpiredState

\* a poll after the delivery of the credential, answered with the expired state
C3_Witness ==
    \E s \in StateIDs :
        /\ Returned("pathPoll", s)
        /\ returned.resp = ExpiredState
        /\ authReturned[s] = 1
        /\ RequestMode(s, callbackModeDirect)

\* C4: a pathPoll whose nonce differs from the stored one never returns a
\* credential, and once it has deleted the item the state ID is not in the
\* store again, so that the next pathPoll fails with the expired state.
C4_MismatchingPollIsFinal ==
    \A s \in StateIDs :
        /\ (Returned("pathPoll", s) /\ nonceMismatch(requests[s], returned.args.client_nonce))
               => returned.resp \in {ExpiredState, InvalidNonce}
        /\ removedBy[s] = "pathPoll_nonce" => ~InStore(s)

\* C5 as stated: in client mode a pathCallback whose nonce differs from the
\* stored one fails with "invalid client_nonce" whatever its other inputs.
C5_AlwaysInvalidNonce ==
    \A s \in StateIDs :
        (/\ Returned("pathCallback", s)
         /\ returned.mode = callbackModeClient
         /\ nonceMismatch(requests[s], returned.args.client_nonce))
            => returned.resp = InvalidNonce

\* C5, amended: in client mode a pathCallback whose nonce differs from the
\* stored one fails with "invalid client_nonce" when its error_description
\* is empty, and with the error description when it is not; the step of the
\* call that learns the mode deletes the item.
C5_InvalidNonceAfterDescription ==
    /\ [](\A s \in StateIDs :
            (/\ Returned("pathCallback", s)
             /\ returned.mode = callbackModeClient
             /\ nonceMismatch(requests[s], returned.args.client_nonce))
                => returned.resp =
                      IF returned.args.error_description = "" THEN InvalidNonce
                      ELSE loginFailedResponse(FALSE, returned.args.error_description))
    /\ [][\A p \in Threads :
            (/\ op[p] = "pathCallback" /\ pc[p] = "cb_role"
             /\ pc'[p] = "cb_process" /\ mode'[p] = callbackModeClient)
                => ~oidcRequests'[args[p].state].present]_vars

\* a client-mode callback with the wrong nonce, answered "invalid client_nonce"
C5_Witness ==
    \E s \in StateIDs :
        /\ Returned("pathCallback", s)
        /\ returned.mode = callbackModeClient
        /\ requests[s].clientNonce = "n1" /\ returned.args.client_nonce = "n2"
        /\ returned.resp = InvalidNonce
        /\ ~oidcRequests[s].present

\* C6: a pathPoll that finds its request, passes the nonce check and reads
\* no credential returns "authorization_pending", and no step of it changes
\* the store: the item, its expiration and the fields of the request stay.
C6_PendingPollLeavesStore ==
    [][\A p \in Threads :
         /\ (Quiet /\ Idle(p) /\ op'[p] = "pathPoll" /\ pc'[p] = "poll_auth")
                => UNCHANGED <<oidcRequests, requests>>
         /\ (/\ Quiet /\ op[p] = "pathPoll" /\ pc[p] = "poll_auth"
             /\ requests[args[p].state].auth = NoAuth
             /\ pc'[p] # pc[p])
                => /\ returned'.handler = "pathPoll"
                   /\ returned'.args.state = args[p].state
                   /\ returned'.resp = Pending
                   /\ UNCHANGED <<oidcRequests, requests>>]_vars

\* a pending poll has returned and the item is in the store, its expiration
\* the one it had: less than a full timeout away
C6_Witness ==
    \E s \in StateIDs :
        /\ Returned("pathPoll", s)
        /\ returned.resp = Pending
        /\ InStore(s)
        /\ oidcRequests[s].ttl < oidcRequestTimeout
        /\ requests[s].auth = NoAuth

\* C7 as stated: a pathCallback or pathPoll call whose state ID is not in
\* the store returns "Expired or missing OAuth state", in every state.
C7_AlwaysExpiredState ==
    [][\A handler \in {"pathCallback", "pathPoll"}, s \in StateInputs :
         (StartsCall(handler, s) /\ ~InStore(s))
             => Returned(handler, s)' /\ returned'.resp = ExpiredState]_vars

\* C7, amended: a pathPoll call whose state ID is not in the store returns
\* "Expired or missing OAuth state"; so does a pathCallback call, unless the
\* read of the configuration fails or finds none, which it reports instead.
C7_ExpiredStateAfterConfig ==
    [][\A handler \in {"pathCallback", "pathPoll"}, s \in StateInputs :
         (StartsCall(handler, s) /\ ~InStore(s))
             => /\ Returned(handler, s)'
                /\ \/ returned'.resp = ExpiredState
                   \/ /\ handler = "pathCallback"
                      /\ returned'.resp = GoError("storage error")
                   \/ /\ handler = "pathCallback"
                      /\ ~config.present
                      /\ returned'.resp =
                            ErrorResponse(errLoginFailed \o " Could not load configuration")]_vars

\* a callback for an item past its expiration that the janitor has not
\* deleted yet, answered with the expired state
C7_Witness ==
    \E s \in StateIDs :
        /\ Returned("pathCallback", s)
        /\ returned.resp = ExpiredState
        /\ oidcRequests[s].present /\ Expired(oidcRequests[s])

\* C8: in client mode, once a pathCallback has found the request, deleted
\* its item (line 237) and returned, the state ID is not in the store: a
\* later pathCallback or pathPoll fails with the expired state.
C8_ClientCallbackIsFinal ==
    \A s \in StateIDs :
        (/\ RequestMode(s, callbackModeClient)
         /\ removedBy[s] = "pathCallback"
         /\ InFlight("pathCallback", s) = {})
            => ~InStore(s)

\* C9 as stated: with an empty client nonce auth_url answers "missing
\* client_nonce" for a role in client mode and not for one in direct mode.
C9_NonceRequiredUnlessDirect ==
    (/\ returned.handler = "authURL"
     /\ returned.mode # ""
     /\ returned.args.client_nonce = "")
        => (returned.resp = MissingNonce <=> returned.mode = callbackModeClient)

\* C9, amended: with an empty client nonce auth_url answers "missing
\* client_nonce" for a role in direct mode and not for one in client mode;
\* with a nonce it never does.
C9_NonceRequiredInDirect ==
    (returned.handler = "authURL" /\ returned.mode # "")
        => (returned.resp = MissingNonce <=>
               (returned.args.client_nonce = "" /\ returned.mode = callbackModeDirect))

\* auth_url has answered a call without a nonce for a client-mode role with a URL
C9_Witness ==
    /\ returned.handler = "authURL"
    /\ returned.mode = callbackModeClient
    /\ returned.args.client_nonce = ""
    /\ returned.resp.auth_url # ""

\* C10: on a configured mount every auth_url call that gets no URL gets the
\* same answer, the empty auth_url, whether its role is unknown, the mount
\* is not an OIDC one, or the redirect URI is not allowed.
C10_NoDescriptiveFailure ==
    (/\ returned.handler = "authURL"
     /\ config.present
     /\ returned.resp.class # "go_error"
     /\ returned.resp.auth_url = "")
        => returned.resp = EmptyAuthURL


\* C11: an item past its expiration is not found by a lookup: no call for
\* its state ID gets past its lookup; and the janitor removes it in the
\* end, without any call: it does not stay in the store expired.
C11_ExpiredEntryIsGone ==
    /\ [][\A s \in StateIDs, p \in Threads :
             (oidcRequests[s].present /\ Expired(oidcRequests[s]) /\ Idle(p))
                 => ~(op'[p] # "idle" /\ args'[p].state = s)]_vars
    /\ \A s \in StateIDs :
          (oidcRequests[s].present /\ Expired(oidcRequests[s]))
              ~> ~(oidcRequests[s].present /\ Expired(oidcRequests[s]))
    /\ [][\A s \in StateIDs :
             (oidcRequests[s].present /\ Expired(oidcRequests[s]) /\ UNCHANGED <<op, pc, returned>>)
                 => ~oidcRequests'[s].present /\ removedBy'[s] = "janitor"]_vars

\* the janitor has removed an item that no call had deleted, and no call is running
C11_Witness ==
    \E s \in StateIDs :
        /\ requests[s].allocated /\ ~oidcRequests[s].present
        /\ removedBy[s] = "janitor"
        /\ \A p \in Threads : Idle(p)

\* C12: a pathCallback for a role in direct mode never answers with the
\* credential; one for a role in client mode leaves none on the request;
\* a request has a credential attached only if its role is in direct mode.
C12_OneRoutePerMode ==
    /\ \A s \in StateIDs :
          /\ (Returned("pathCallback", s) /\ returned.mode = callbackModeDirect)
                 => returned.resp.class # "auth" /\ returned.resp.auth = NoAuth
          /\ (Returned("pathCallback", s) /\ returned.mode = callbackModeClient)
                 => requests[s].auth = NoAuth
          /\ requests[s].auth # NoAuth => RequestMode(s, callbackModeDirect)
    /\ \A p \in Threads :
          pc[p] \in {"cb_attach", "cb_set"} => mode[p] = callbackModeDirect

\* a direct-mode callback has answered with the success page, the
\* credential attached to the stored request
C12_Witness ==
    \E s \in StateIDs :
        /\ Returned("pathCallback", s)
        /\ returned.mode = callbackModeDirect
        /\ returned.resp = HTTPResponse("http200", "success")
        /\ requests[s].auth # NoAuth
        /\ InStore(s)

\* the URIs a and b are equal once the port is removed from both
EqualWithoutPort(a, b) ==
    a.wellFormed /\ b.wellFormed /\ a.host = b.host /\ a.path = b.path

IsWellFormed(u) == u.wellFormed
WellFormedList(list) == \A i \in 1..Len(list) : IsWellFormed(list[i])
Loopback(u) == u.host \in LoopbackHosts

\* C13: on an allow-list of well-formed URIs validRedirect returns true
\* exactly when the candidate is not loopback and is a member of the list,
\* or is loopback and equals some entry once the port is removed from
\* both; a candidate that is not loopback never matches on an entry that
\* differs from it only in the port.
C13_ValidRedirectCharacterised ==
    (checkedValid # "" /\ WellFormedList(checkedAllowed)) =>
        /\ checkedValid = "valid" <=>
               \/ /\ ~Loopback(checkedURI)
                  /\ \E i \in 1..Len(checkedAllowed) : checkedAllowed[i] = checkedURI
               \/ /\ Loopback(checkedURI)
                  /\ \E i \in 1..Len(checkedAllowed) :
                         EqualWithoutPort(checkedAllowed[i], checkedURI)
        /\ (/\ ~Loopback(checkedURI)
            /\ \A i \in 1..Len(checkedAllowed) : checkedAllowed[i] # checkedURI)
               => checkedValid = "invalid"

C13_Witness ==
    /\ checkedValid = "valid"
    /\ WellFormedList(checkedAllowed)
    /\ Loopback(checkedURI)
    /\ \A i \in 1..Len(checkedAllowed) : checkedAllowed[i] # checkedURI

\* C14: for a loopback candidate validRedirect returns what it returns on
\* the allow-list with the malformed entries removed: a malformed entry does
\* not match and does not end the search.
C14_MalformedEntryIsSkipped ==
    (checkedValid # "" /\ Loopback(checkedURI)) =>
        (checkedValid = "valid"
            <=> validRedirect(checkedURI, SelectSeq(checkedAllowed, IsWellFormed)))

\* C15: a state ID whose item the janitor, a consuming pathPoll or a
\* nonce-mismatch pathPoll has removed is never in the store again, and no
\* pathPoll returns its credential afterwards: a pathCallback in flight that
\* read the item before the removal does not store it again.
C15_RemovedStaysRemoved ==
    [][\A s \in StateIDs :
          removedBy[s] \in {"janitor", "pathPoll", "pathPoll_nonce"}
              => /\ ~oidcRequests'[s].present
                 /\ ~(/\ returned'.handler = "pathPoll"
                      /\ returned'.args.state = s
                      /\ returned'.resp.class = "auth")]_vars

\* C16: the credential of a state ID is attached at most once, however the
\* pathCallback calls for it interleave: a call that finds a credential
\* attached does not attach one, and a pathCallback that returns the success
\* page is the one call that attached.
C16_AttachedAtMostOnce ==
    [][\A s \in StateIDs, p \in Threads :
          (/\ requests[s].auth # NoAuth
           /\ op[p] = "pathCallback"
           /\ args[p].state = s
           /\ pc[p] = "cb_attach")
              => pc'[p] = "cb_attach"]_vars

\* this step is the setOIDCRequest of a call for the state ID s
Puts(s) ==
    \E p \in Threads :
        /\ args[p].state = s
        /\ pc[p] \in {"cb_set", "post_set"}
        /\ pc'[p] = "done"

\* C17 as stated: the expiration of an item is fixed when the item is
\* created and never moves, so that no item is in the store later than
\* oidcRequestTimeout after its creation.
C17_ExpiryFixedAtCreation ==
    [][\A s \in StateIDs :
          (oidcRequests[s].present /\ oidcRequests'[s].present)
              => oidcRequests'[s].ttl <= oidcRequests[s].ttl]_vars

\* C17, amended: the expiration of an item in the store moves only when a
\* setOIDCRequest stores the item again, and then to oidcRequestTimeout from
\* that moment; no item is in the store later than oidcRequestTimeout after
\* it was last stored.
C17_ExpiryMovedOnlyByPut ==
    [][\A s \in StateIDs :
          /\ (/\ oidcRequests[s].present /\ oidcRequests'[s].present
              /\ oidcRequests'[s].ttl > oidcRequests[s].ttl)
                 => Puts(s) /\ oidcRequests'[s].ttl = oidcRequestTimeout
          /\ (/\ oidcRequests[s].present /\ oidcRequests'[s].present
              /\ oidcRequests'[s].ttl < oidcRequests[s].ttl)
                 => UNCHANGED <<op, pc, returned, requests>>
          /\ oidcRequests'[s].present => oidcRequests'[s].ttl <= oidcRequestTimeout]_vars

C17_Witness ==
    \E s \in StateIDs :
        /\ Returned("pathCallback", s)
        /\ returned.resp = HTTPResponse("http200", "success")
        /\ oidcRequests[s] = Item(oidcRequestTimeout)
        /\ authReturned[s] = 0
        /\ removedBy[s] = ""

\* C18: every store of an item (createOIDCRequest, the setOIDCRequest of
\* pathCallbackPost and the one of a direct-mode pathCallback) sets its
\* expiration to oidcRequestTimeout from that moment; a pathPoll that
\* answers authorization_pending leaves the expiration as it is.
C18_PutSetsExpiry ==
    [][\A s \in StateIDs :
          /\ Puts(s) => oidcRequests'[s] = Item(oidcRequestTimeout)
          /\ (~requests[s].allocated /\ requests'[s].allocated)
                 => oidcRequests'[s] = Item(oidcRequestTimeout)
          /\ (/\ returned'.handler = "pathPoll"
              /\ returned'.args.state = s
              /\ returned'.resp = Pending)
                 => oidcRequests'[s] = oidcRequests[s]]_vars

C18_Witness ==
    \E s \in StateIDs :
        /\ Returned("pathCallbackPost", s)
        /\ returned.resp.class = "http200"
        /\ requests[s].code # ""
        /\ oidcRequests[s] = Item(oidcRequestTimeout)

\* C19: a pathCallback for a role in direct mode that fails after it has
\* read the role (error description, CIDR denial, provider, exchange or
\* verification failure, bound subject or bound claims) leaves the item in
\* the store and attaches no credential, and a pathPoll with the matching
\* nonce that finds no credential answers authorization_pending and leaves
\* the item too.
C19_DirectFailureLeavesEntry ==
    [][\A s \in StateIDs, p \in Threads :
          /\ (/\ returned'.handler = "pathCallback"
              /\ returned'.args.state = s
              /\ returned'.mode = callbackModeDirect
              /\ returned'.resp # HTTPResponse("http200", "success"))
                 => UNCHANGED <<oidcRequests, requests>>
          /\ (/\ op[p] = "pathCallback" /\ pc[p] = "cb_role" /\ args[p].state = s
              /\ pc'[p] = "cb_process" /\ mode'[p] = callbackModeDirect)
                 => UNCHANGED <<oidcRequests, requests>>
          /\ (/\ op[p] = "pathPoll" /\ pc[p] = "poll_auth" /\ args[p].state = s
              /\ pc'[p] # "poll_auth"
              /\ requests[s].auth = NoAuth)
                 => returned'.resp = Pending /\ UNCHANGED <<oidcRequests, requests>>]_vars

C19_Witness ==
    \E s \in StateIDs :
        /\ Returned("pathCallback", s)
        /\ returned.mode = callbackModeDirect
        /\ returned.resp.class \in {"http400", "error"}
        /\ InStore(s)
        /\ requests[s].auth = NoAuth
        /\ removedBy[s] = ""

\* C20: the code and the ID token of a request are stored once: when a
\* pathCallbackPost has stored a code or an ID token on a request, no later
\* pathCallbackPost for the same state ID changes either field.
C20_PostedFieldsStoredOnce ==
    [][\A s \in StateIDs :
          (requests[s].code # "" \/ requests[s].idToken # "")
              => /\ requests'[s].code = requests[s].code
                 /\ requests'[s].idToken = requests[s].idToken]_vars

\* C21: an authURL call that answers with an empty auth_url or with an
\* error leaves the store as it was: an item is stored only by a call that
\* returns an authorization URL, and a failure of provider.AuthURL after
\* createOIDCRequest leaves no item behind.
C21_FailedAuthURLLeavesStore ==
    [][(returned'.handler = "authURL" /\ returned'.resp.auth_url = "")
          => UNCHANGED <<oidcRequests, requests>>]_vars

====
